---- MODULE Spec2Model ----
(***************************************************************************)
(* The tool registry of llama_cpp_agent/function_calling.py:               *)
(* LlamaCppFunctionTool descriptors, LlamaCppFunctionToolRegistry with its *)
(* two name-keyed dictionaries, finalize, and the dispatch of a model      *)
(* response to a tool (handle_function_call / intern_function_call).       *)
(*                                                                         *)
(* Strings that the code searches or parses (response texts) are sequences *)
(* of tokens; a Python dict is a sequence of <<key, value>> entries in     *)
(* insertion order, as CPython keeps it.                                   *)
(***************************************************************************)
EXTENDS Naturals, Sequences, FiniteSets, TLC

\* Largest number of entries the two dictionaries hold together.
MaxTools == 2

\* Python's None for an object-valued slot, and a present object.
None == << >>
Some(x) == << x >>

\* No string: the absent marker, name or key.
Absent == "-"

(***************************************************************************)
(* Caller-supplied pydantic models: the class name as its PascalCase words *)
(* and the fields the class requires.                                      *)
(***************************************************************************)
PydanticModels ==
    { [name |-> <<"Lookup">>, required |-> {"query"}],
      [name |-> <<"Write">>,  required |-> {"path", "markdown_code_block"}] }

\* **additional_parameters the caller constructs a tool of the model with:
\* one fixed keyword for Lookup, none for Write.
AdditionalParameters(pydantic_model) ==
    IF pydantic_model.name = <<"Lookup">> THEN [api_key |-> "k1"] ELSE << >>

Lower(word) ==
    CASE word = "Lookup" -> "lookup"
      [] word = "Write"  -> "write"
      [] OTHER           -> word

RECURSIVE JoinLower(_)
JoinLower(words) ==
    IF Len(words) = 0 THEN ""
    ELSE IF Len(words) = 1 THEN Lower(words[1])
    ELSE Lower(words[1]) \o "-" \o JoinLower(Tail(words))

\* The canonical name of a model class: its words lower-cased, joined by "-".
format_model_and_field_name(words) == JoinLower(words)

\* LlamaCppFunctionTool.__init__
LlamaCppFunctionTool(pydantic_model, has_markdown_code_block, has_triple_quoted_string, additional_parameters) ==
    [ model                    |-> pydantic_model,
      look_for_field_string    |-> has_markdown_code_block \/ has_triple_quoted_string,
      has_markdown_code_block  |-> has_markdown_code_block,
      has_triple_quoted_string |-> has_triple_quoted_string,
      additional_parameters    |-> additional_parameters ]

FunctionTools ==
    { LlamaCppFunctionTool(m, md, tq, AdditionalParameters(m)) :
        m \in PydanticModels, md \in BOOLEAN, tq \in BOOLEAN }

(***************************************************************************)
(* Python dict: entries in insertion order; assigning to an existing key   *)
(* replaces the value and keeps the key's position.                        *)
(***************************************************************************)
DictKeys(d) == { d[i].key : i \in 1..Len(d) }

DictHas(d, k) == k \in DictKeys(d)

DictGet(d, k) == d[CHOOSE i \in 1..Len(d) : d[i].key = k].value

DictSet(d, k, v) ==
    IF DictHas(d, k)
    THEN [ i \in 1..Len(d) |-> IF d[i].key = k THEN [key |-> k, value |-> v] ELSE d[i] ]
    ELSE Append(d, [key |-> k, value |-> v])

(***************************************************************************)
(* Response texts.  A text is a sequence of tokens; a call object          *)
(* {"function": n, "function-parameters": {k: v, ...}} is written          *)
(*   { function n function-parameters { k v ... } }                        *)
(* and may be followed by a fenced block  m content m  with m one of the   *)
(* two fence markers.                                                      *)
(***************************************************************************)
\* The two fence markers, three single quotes and three backticks, as tokens.
TripleQuote == "3xQUOTE"
Backticks == "3xBACKTICK"

Structural == { "{", "}", TripleQuote, Backticks }

\* The call objects a response may hold: calls of the two registrable tools
\* with no field and with the right field, whose value may spell a tool name,
\* a call whose fields fit either tool, and a call of a name nobody registers.
CallObjects ==
    { [function |-> "lookup", parameters |-> << >>],
      [function |-> "lookup", parameters |-> [query |-> "cats"]],
      [function |-> "lookup", parameters |-> [query |-> "write"]],
      [function |-> "write",  parameters |-> << >>],
      [function |-> "write",  parameters |-> [path |-> "cats"]],
      [function |-> "write",  parameters |-> [path |-> "lookup"]],
      [function |-> "write",  parameters |-> [query |-> "cats", path |-> "cats"]],
      [function |-> "ghost",  parameters |-> [query |-> "cats"]] }

FieldOrder == << "query", "path" >>

RECURSIVE RenderFields(_, _)
RenderFields(p, i) ==
    IF i > Len(FieldOrder) THEN <<>>
    ELSE (IF FieldOrder[i] \in DOMAIN p THEN << FieldOrder[i], p[FieldOrder[i]] >> ELSE <<>>)
         \o RenderFields(p, i + 1)

RenderCall(n, p) ==
    << "{", "function", n, "function-parameters", "{" >> \o RenderFields(p, 1) \o << "}", "}" >>

RenderFence(m) == IF m = Absent THEN <<>> ELSE << m, "body", m >>

WellFormedTexts ==
    { RenderCall(c.function, c.parameters) \o RenderFence(m) :
        c \in CallObjects, m \in { Absent, Backticks, TripleQuote } }

\* A call object inside a surrounding markdown fence.
FencedTexts ==
    { << Backticks >> \o RenderCall("lookup", [query |-> "cats"]) \o << Backticks >> }

\* Prose, and an object without the parameters key.
MalformedTexts ==
    { << "sorry", "write" >>,
      << "{", "function", "lookup", "}" >> }

ResponseTexts == WellFormedTexts \cup FencedTexts \cup MalformedTexts

\* The Python test (name in text), for a one-token name.
Contains(name, text) == \E i \in 1..Len(text) : text[i] = name

IndexOf(tok, text) ==
    IF Contains(tok, text) THEN CHOOSE i \in 1..Len(text) :
                                    text[i] = tok /\ \A j \in 1..(i - 1) : text[j] # tok
    ELSE 0

Failure == [ok |-> FALSE]

\* The k v pairs of a parameter object from position i up to its closing brace.
RECURSIVE ParseFields(_, _, _)
ParseFields(text, i, acc) ==
    IF i > Len(text) THEN Failure
    ELSE IF text[i] = "}" THEN [ok |-> TRUE, fields |-> acc, next |-> i + 1]
    ELSE IF i + 1 > Len(text) \/ text[i] \in Structural \/ text[i + 1] \in Structural
         THEN Failure
    ELSE ParseFields(text, i + 2, [k \in DOMAIN acc \cup {text[i]} |->
                                      IF k = text[i] THEN text[i + 1] ELSE acc[k]])

\* A call object: the tool-name key, then the parameters key, and nothing else.
ParseCallObject(text) ==
    IF /\ Len(text) >= 7
       /\ text[1] = "{"
       /\ text[2] = "function"
       /\ text[3] \notin Structural
       /\ text[4] = "function-parameters"
       /\ text[5] = "{"
    THEN LET f == ParseFields(text, 6, <<>>) IN
         IF f.ok /\ f.next = Len(text) /\ text[f.next] = "}"
         THEN [ok |-> TRUE, function |-> text[3], parameters |-> f.fields]
         ELSE Failure
    ELSE Failure

\* Plain path: strip an optional surrounding markdown fence, then parse.
parse_json_response(text) ==
    IF Len(text) >= 2 /\ text[1] = Backticks /\ text[Len(text)] = Backticks
    THEN ParseCallObject(SubSeq(text, 2, Len(text) - 1))
    ELSE ParseCallObject(text)

\* Embedded-text path: split on the marker into the structured prefix and the
\* content; no_fence is what the parser does with a text that holds no marker:
\* "fail" (no content segment) or "empty" (an empty content segment).
parse_json_response_with_markdown_code_block_or_triple_quoted_string(text, marker, no_fence) ==
    LET i == IndexOf(marker, text) IN
    IF i = 0
    THEN IF no_fence = "fail" THEN Failure
         ELSE LET c == ParseCallObject(text) IN
              IF c.ok THEN [ok |-> TRUE, call |-> c, content |-> <<>>] ELSE Failure
    ELSE LET c    == ParseCallObject(SubSeq(text, 1, i - 1))
             rest == SubSeq(text, i + 1, Len(text))
             j    == IndexOf(marker, rest)
         IN  IF c.ok
             THEN [ok |-> TRUE, call |-> c,
                   content |-> IF j = 0 THEN rest ELSE SubSeq(rest, 1, j - 1)]
             ELSE Failure

VARIABLES
    function_tools,                         \* dict: canonical name -> tool (plain)
    function_tools_containing_field_string,  \* dict: canonical name -> tool (embedded text)
    grammar,                                 \* LlamaGrammar or None
    grammar_documentation,                   \* documentation or None
    gbnf_grammar,                            \* grammar text or None
    last,                                    \* the last call made on the registry and how it ended
    \* WebSearchTool.search_web, from line 62 on
    pc,                            \* where search_web is
    res,                           \* the combined summaries, stripped: their length in characters
    tokenize,                      \* llm_provider.tokenize: length of a prefix of res -> token count
    max_tokens_search_results,     \* the token budget
    tokens,                        \* len(tokens)
    original_prompt_token_count,
    remove_char_count,
    has_remove_char,
    returned                       \* None, or the length of the text returned after the header

web_search == << pc, res, tokenize, max_tokens_search_results, tokens,
                 original_prompt_token_count, remove_char_count, has_remove_char,
                 returned >>

vars == << function_tools, function_tools_containing_field_string,
           grammar, grammar_documentation, gbnf_grammar, last, web_search >>

tool_root == "function"
tool_rule_content == "function-parameters"
model_prefix == "Function"
fields_prefix == "Function Parameters"

\* LlamaCppFunctionToolRegistry.__init__
RegistryInit ==
    /\ function_tools = <<>>
    /\ function_tools_containing_field_string = <<>>
    /\ grammar = None
    /\ grammar_documentation = None
    /\ gbnf_grammar = None
    /\ last = [op |-> "init"]

\* No search_web call is under way.
WebSearchIdle ==
    /\ pc = "idle"
    /\ res = 0
    /\ tokenize = [n \in {0} |-> 0]
    /\ max_tokens_search_results = 0
    /\ tokens = 0
    /\ original_prompt_token_count = 0
    /\ remove_char_count = 0
    /\ has_remove_char = FALSE
    /\ returned = None

Init == RegistryInit /\ WebSearchIdle

\* The dictionary register_function_tool stores the tool in.
RegisterTarget(function_tool) ==
    IF function_tool.look_for_field_string THEN "embedded" ELSE "plain"

\* function_name = format_model_and_field_name(function_tool.model.__name__)
FunctionName(function_tool) == format_model_and_field_name(function_tool.model.name)

\* As register_function_tool, but a registration discards the compiled grammar.
register_function_tool_invalidating(function_tool) ==
    /\ \/ DictHas(IF RegisterTarget(function_tool) = "embedded"
                   THEN function_tools_containing_field_string
                   ELSE function_tools, FunctionName(function_tool))
       \/ Len(function_tools) + Len(function_tools_containing_field_string) < MaxTools
    /\ IF RegisterTarget(function_tool) = "embedded"
       THEN /\ function_tools_containing_field_string' =
                   DictSet(function_tools_containing_field_string,
                           FunctionName(function_tool), function_tool)
            /\ UNCHANGED function_tools
       ELSE /\ function_tools' =
                   DictSet(function_tools, FunctionName(function_tool), function_tool)
            /\ UNCHANGED function_tools_containing_field_string
    /\ last' = [op |-> "register", name |-> FunctionName(function_tool),
                outcome |-> [kind |-> "return"]]
    /\ grammar' = None
    /\ grammar_documentation' = None
    /\ gbnf_grammar' = None
    /\ UNCHANGED web_search

\* register_function_tool(function_tool)
register_function_tool(function_tool) ==
    /\ \/ DictHas(IF RegisterTarget(function_tool) = "embedded"
                   THEN function_tools_containing_field_string
                   ELSE function_tools, FunctionName(function_tool))
       \/ Len(function_tools) + Len(function_tools_containing_field_string) < MaxTools
    /\ IF RegisterTarget(function_tool) = "embedded"
       THEN /\ function_tools_containing_field_string' =
                   DictSet(function_tools_containing_field_string,
                           FunctionName(function_tool), function_tool)
            /\ UNCHANGED function_tools
       ELSE /\ function_tools' =
                   DictSet(function_tools, FunctionName(function_tool), function_tool)
            /\ UNCHANGED function_tools_containing_field_string
    /\ last' = [op |-> "register", name |-> FunctionName(function_tool),
                outcome |-> [kind |-> "return"]]
    /\ UNCHANGED << grammar, grammar_documentation, gbnf_grammar >>
    /\ UNCHANGED web_search

Register == \E t \in FunctionTools : register_function_tool(t)

(***************************************************************************)
(* get_function_tool                                                       *)
(***************************************************************************)
\* The names a caller asks for: the two registrable ones and one nobody registers.
FunctionNames == { "lookup", "write", "ghost" }

\* Lines 107-112: the plain dictionary is consulted first.
GetFunctionToolResult(function_name) ==
    IF DictHas(function_tools, function_name)
    THEN Some(DictGet(function_tools, function_name))
    ELSE IF DictHas(function_tools_containing_field_string, function_name)
    THEN Some(DictGet(function_tools_containing_field_string, function_name))
    ELSE None

get_function_tool(function_name) ==
    /\ last' = [op |-> "get", name |-> function_name,
                result |-> GetFunctionToolResult(function_name),
                outcome |-> [kind |-> "return"]]
    /\ UNCHANGED << function_tools, function_tools_containing_field_string,
                    grammar, grammar_documentation, gbnf_grammar >>
    /\ UNCHANGED web_search

GetFunctionTool == \E n \in FunctionNames : get_function_tool(n)

(***************************************************************************)
(* finalize                                                                *)
(***************************************************************************)
\* The grammar compiler: one alternative per model, in the order given, the
\* fence rules the two flags allow, and the documentation of the same models.
generate_gbnf_grammar_and_documentation(models, allow_markdown, allow_triple, root, rule_content, m_prefix, f_prefix) ==
    << [ root            |-> root,
         rule_content    |-> rule_content,
         alternatives    |-> [ i \in 1..Len(models) |-> format_model_and_field_name(models[i].name) ],
         markdown_rule   |-> allow_markdown,
         triple_rule     |-> allow_triple ],
       [ model_prefix    |-> m_prefix,
         fields_prefix   |-> f_prefix,
         documented      |-> [ i \in 1..Len(models) |-> format_model_and_field_name(models[i].name) ] ] >>

LlamaGrammar_from_string(text) == [from_string |-> text]

\* The model list finalize builds: the plain tools' models, then the embedded ones'.
FinalizeModels ==
    [ i \in 1..Len(function_tools) |-> function_tools[i].value.model ]
    \o [ i \in 1..Len(function_tools_containing_field_string) |->
             function_tools_containing_field_string[i].value.model ]

\* look_markdown_code_block after both loops of finalize.
FinalizeLookFlag ==
    \/ \E i \in 1..Len(function_tools) : function_tools[i].value.look_for_field_string
    \/ \E i \in 1..Len(function_tools_containing_field_string) :
           function_tools_containing_field_string[i].value.look_for_field_string

\* What finalize gets back from the compiler: << grammar text, documentation >>.
FinalizeCompiled ==
    generate_gbnf_grammar_and_documentation(
        FinalizeModels, FinalizeLookFlag, FinalizeLookFlag,
        tool_root, tool_rule_content, model_prefix, fields_prefix)

\* As finalize, but the documentation is not stored (line 134 left out).
finalize_without_documentation ==
    /\ grammar' = Some(LlamaGrammar_from_string(FinalizeCompiled[1]))
    /\ gbnf_grammar' = Some(FinalizeCompiled[1])
    /\ last' = [op |-> "finalize", outcome |-> [kind |-> "return"]]
    /\ UNCHANGED << function_tools, function_tools_containing_field_string,
                    grammar_documentation >>
    /\ UNCHANGED web_search

finalize ==
    /\ grammar' = Some(LlamaGrammar_from_string(FinalizeCompiled[1]))
    /\ grammar_documentation' = Some(FinalizeCompiled[2])
    /\ gbnf_grammar' = Some(FinalizeCompiled[1])
    /\ last' = [op |-> "finalize", outcome |-> [kind |-> "return"]]
    /\ UNCHANGED << function_tools, function_tools_containing_field_string >>
    /\ UNCHANGED web_search

\* get_grammar(), get_documentation(): the attributes as they are.
get_grammar == grammar

get_documentation == grammar_documentation

(***************************************************************************)
(* handle_function_call / intern_function_call                             *)
(***************************************************************************)
Return(v) == [kind |-> "return", value |-> v]
Raise(e) == [kind |-> "raise", exc |-> e]

\* f"Error: {e}"
ErrorString(e) == [prefix |-> "Error: ", body |-> [message |-> e]]

\* cls(**call_parameters): pydantic accepts the mapping when every required
\* field is present (unknown keys are ignored).
Validates(cls, call_parameters) == cls.required \subseteq DOMAIN call_parameters

\* What the tool's run may do when called: return its output, or raise.
Behaviours == { "returns", "AttributeError", "RuntimeError" }

\* The output of call.run(**additional_parameters) when it returns.
RunOutput(cls, call_parameters, additional_parameters) ==
    [prefix |-> "", body |-> [ran |-> cls.name, parameters |-> call_parameters,
                              kwargs |-> additional_parameters]]

\* As ValidateAndRun, but run is called without the parameters being validated.
ValidateAndRun_unvalidated(function_tool, call_parameters, behaviour) ==
    [outcome |-> CASE behaviour = "returns" ->
                         Return(RunOutput(function_tool.model, call_parameters,
                                          function_tool.additional_parameters))
                   [] behaviour = "AttributeError" ->
                         Return(ErrorString("AttributeError"))
                   [] OTHER -> Raise(behaviour),
     stages  |-> << "Validated", "Invoked" >>,
     invoked |-> << [tool |-> function_tool, parameters |-> call_parameters,
                     kwargs |-> function_tool.additional_parameters,
                     behaviour |-> behaviour] >>]

\* try: cls(**call_parameters); call.run(**additional_parameters)
\* except AttributeError: return f"Error: {e}"
ValidateAndRun(function_tool, call_parameters, behaviour) ==
    IF ~Validates(function_tool.model, call_parameters)
    THEN [outcome |-> Raise("ValidationError"), stages |-> <<>>, invoked |-> <<>>]
    ELSE LET inv == << [tool |-> function_tool, parameters |-> call_parameters,
                        kwargs |-> function_tool.additional_parameters,
                        behaviour |-> behaviour] >>
         IN  [outcome |-> CASE behaviour = "returns" ->
                                  Return(RunOutput(function_tool.model, call_parameters,
                                                   function_tool.additional_parameters))
                            [] behaviour = "AttributeError" ->
                                  Return(ErrorString("AttributeError"))
                            [] OTHER -> Raise(behaviour),
              stages  |-> << "Validated", "Invoked" >>,
              invoked |-> inv]

\* As intern_function_call, but a call of a registered name is given to the
\* first tool of the dictionary instead of the one stored under the name.
intern_function_call_first_tool(function_call, with_markdown_code_block, behaviour) ==
    LET tools == IF with_markdown_code_block
                 THEN function_tools_containing_field_string
                 ELSE function_tools
    IN  IF ~DictHas(tools, function_call.function)
        THEN [outcome |-> Raise("KeyError"), stages |-> <<>>, invoked |-> <<>>]
        ELSE LET r == ValidateAndRun(tools[1].value, function_call.parameters, behaviour)
             IN  [r EXCEPT !.stages = << "Resolved" >> \o r.stages]

\* intern_function_call(function_call, with_markdown_code_block)
intern_function_call(function_call, with_markdown_code_block, behaviour) ==
    LET tools == IF with_markdown_code_block
                 THEN function_tools_containing_field_string
                 ELSE function_tools
    IN  IF ~DictHas(tools, function_call.function)
        THEN [outcome |-> Raise("KeyError"), stages |-> <<>>, invoked |-> <<>>]
        ELSE LET r == ValidateAndRun(DictGet(tools, function_call.function),
                                     function_call.parameters, behaviour)
             IN  [r EXCEPT !.stages = << "Resolved" >> \o r.stages]

\* marker = "'''" if tool.has_triple_quoted_string else "```"
Marker(tool) == IF tool.has_triple_quoted_string THEN TripleQuote ELSE Backticks

\* As InjectedKey, but with the two keys swapped.
InjectedKey_swapped(tool) ==
    IF tool.has_markdown_code_block THEN "triple_quoted_string"
    ELSE IF tool.has_triple_quoted_string THEN "markdown_code_block"
    ELSE Absent

\* The key the content is stored under (lines 171-174), Absent when neither flag is set.
InjectedKey(tool) ==
    IF tool.has_markdown_code_block THEN "markdown_code_block"
    ELSE IF tool.has_triple_quoted_string THEN "triple_quoted_string"
    ELSE Absent

Inject(call_parameters, key, content) ==
    IF key = Absent THEN call_parameters
    ELSE [k \in DOMAIN call_parameters \cup {key} |->
             IF k = key THEN content ELSE call_parameters[k]]

\* Positions of the embedded-text tools whose name occurs in the response.
Matches(text) ==
    { i \in 1..Len(function_tools_containing_field_string) :
        Contains(function_tools_containing_field_string[i].key, text) }

\* The body of the first loop iteration whose name test succeeds (lines 169-177).
EmbeddedPath(i, text, behaviour, no_fence) ==
    LET name   == function_tools_containing_field_string[i].key
        marker == Marker(DictGet(function_tools_containing_field_string, name))
        parsed == parse_json_response_with_markdown_code_block_or_triple_quoted_string(
                      text, marker, no_fence)
        base   == [path |-> "embedded", selected |-> name, marker |-> marker,
                   call |-> None, content |-> <<>>, injected |-> {},
                   stages |-> <<"Received">>, invoked |-> <<>>]
    IN  IF ~parsed.ok
        THEN [base EXCEPT !.stages = @ \o <<"Failed">>] @@ [outcome |-> Raise("MalformedCallError")]
        ELSE IF ~DictHas(function_tools_containing_field_string, parsed.call.function)
        THEN [base EXCEPT !.call = Some([function |-> parsed.call.function,
                                          parameters |-> parsed.call.parameters]),
                          !.content = parsed.content,
                          !.stages = @ \o <<"Parsed", "Failed">>]
             @@ [outcome |-> Raise("KeyError")]
        ELSE LET callee == DictGet(function_tools_containing_field_string, parsed.call.function)
                 key    == InjectedKey(callee)
                 call   == [function   |-> parsed.call.function,
                            parameters |-> Inject(parsed.call.parameters, key, parsed.content)]
                 r      == intern_function_call(call, TRUE, behaviour)
             IN  [base EXCEPT !.call = Some(call),
                              !.content = parsed.content,
                              !.injected = IF key = Absent THEN {} ELSE {key},
                              !.invoked = r.invoked,
                              !.stages = @ \o <<"Parsed">> \o r.stages \o
                                  << IF r.outcome.kind = "return" /\ r.outcome.value.prefix = ""
                                     THEN "Succeeded" ELSE "Failed" >>]
                 @@ [outcome |-> r.outcome]

\* Lines 179-181: no embedded-text tool is named in the response.
PlainPath(text, behaviour) ==
    LET parsed == parse_json_response(text)
        base   == [path |-> "plain", selected |-> Absent, marker |-> Absent,
                   call |-> None, content |-> <<>>, injected |-> {},
                   stages |-> <<"Received">>, invoked |-> <<>>]
    IN  IF ~parsed.ok
        THEN [base EXCEPT !.stages = @ \o <<"Failed">>] @@ [outcome |-> Raise("MalformedCallError")]
        ELSE LET call == [function |-> parsed.function, parameters |-> parsed.parameters]
                 r    == intern_function_call(call, FALSE, behaviour)
             IN  [base EXCEPT !.call = Some(call),
                              !.invoked = r.invoked,
                              !.stages = @ \o <<"Parsed">> \o r.stages \o
                                  << IF r.outcome.kind = "return" /\ r.outcome.value.prefix = ""
                                     THEN "Succeeded" ELSE "Failed" >>]
                 @@ [outcome |-> r.outcome]

\* handle_function_call(function_call_response): its result and what it did.
HandleResult(text, behaviour, no_fence) ==
    IF Matches(text) # {}
    THEN EmbeddedPath(CHOOSE i \in Matches(text) : \A j \in Matches(text) : i <= j,
                      text, behaviour, no_fence)
    ELSE PlainPath(text, behaviour)

\* As handle_function_call, but the parameters of a call with injected content
\* are kept in the called tool's additional_parameters.
handle_function_call_storing(text, behaviour, no_fence) ==
    /\ last' = [op |-> "handle", response |-> text] @@ HandleResult(text, behaviour, no_fence)
    /\ function_tools_containing_field_string' =
           IF HandleResult(text, behaviour, no_fence).injected = {}
           THEN function_tools_containing_field_string
           ELSE DictSet(function_tools_containing_field_string,
                        HandleResult(text, behaviour, no_fence).call[1].function,
                        [ DictGet(function_tools_containing_field_string,
                                  HandleResult(text, behaviour, no_fence).call[1].function)
                            EXCEPT !.additional_parameters =
                                HandleResult(text, behaviour, no_fence).call[1].parameters ])
    /\ UNCHANGED << function_tools, grammar, grammar_documentation, gbnf_grammar >>
    /\ UNCHANGED web_search

handle_function_call(text, behaviour, no_fence) ==
    /\ last' = [op |-> "handle", response |-> text] @@ HandleResult(text, behaviour, no_fence)
    /\ UNCHANGED << function_tools, function_tools_containing_field_string,
                    grammar, grammar_documentation, gbnf_grammar >>
    /\ UNCHANGED web_search

\* The parser's handling of a marker-less text is drawn only when the text
\* takes the embedded path, the tool's behaviour only when run is reached.
NoFenceChoices(text) ==
    IF Matches(text) # {} THEN {"fail", "empty"} ELSE {"fail"}

BehaviourChoices(text, no_fence) ==
    IF HandleResult(text, "returns", no_fence).invoked # <<>> THEN Behaviours ELSE {"returns"}

Handle ==
    \E text \in ResponseTexts :
        \E no_fence \in NoFenceChoices(text) :
            \E behaviour \in BehaviourChoices(text, no_fence) :
                handle_function_call(text, behaviour, no_fence)

Next == Register \/ GetFunctionTool \/ finalize \/ Handle

Spec == Init /\ [][Next]_vars

(***************************************************************************)
(* WebSearchTool.search_web, lines 62-77: the combined summaries are cut   *)
(* to the token budget.  A text is known by its length in characters, and  *)
(* the provider's tokenizer by the token count it gives each prefix of the *)
(* text that the loop can ask about; no relation between the counts of     *)
(* different prefixes is assumed.                                          *)
(***************************************************************************)
MaxChars == 104

MaxTokenCount == 3

\* remove_char_count += 50
RemoveStep == 50

Min(a, b) == IF a <= b THEN a ELSE b

\* len(res[:count]) for a text of n characters
Slice(n, count) == Min(count, n)

\* The lengths of the prefixes res[:50], res[:100], ... of a text of n
\* characters; those from n on are the text itself.
PrefixLengths(n) == { m \in 0..n : m = n \/ (m > 0 /\ m % RemoveStep = 0) }

registry == << function_tools, function_tools_containing_field_string,
               grammar, grammar_documentation, gbnf_grammar, last >>

\* search_web has collected the summaries and is at line 62.
WebSearchInit ==
    /\ RegistryInit
    /\ pc = "strip"
    /\ res \in 0..MaxChars
    /\ tokenize \in [PrefixLengths(res) -> 0..MaxTokenCount]
    /\ max_tokens_search_results \in 0..MaxTokenCount
    /\ tokens = 0
    /\ original_prompt_token_count = 0
    /\ remove_char_count = 0
    /\ has_remove_char = FALSE
    /\ returned = None

\* Lines 62-68: tokenize the whole text and decide whether to cut it.
search_web_tokenize ==
    /\ pc = "strip"
    /\ tokens' = tokenize[res]
    /\ original_prompt_token_count' = tokenize[res]
    /\ remove_char_count' = 0
    /\ has_remove_char' = (tokenize[res] > max_tokens_search_results)
    /\ pc' = IF tokenize[res] > max_tokens_search_results THEN "while" ELSE "return"
    /\ UNCHANGED << res, tokenize, max_tokens_search_results, returned, registry >>

\* Lines 69-72: the loop's test.
search_web_test ==
    /\ pc = "while"
    /\ pc' = IF max_tokens_search_results >= tokens THEN "return" ELSE "grow"
    /\ UNCHANGED << res, tokenize, max_tokens_search_results, tokens,
                    original_prompt_token_count, remove_char_count, has_remove_char,
                    returned, registry >>

\* Lines 73-74.  A count that has reached the end of the text is kept as it
\* is: res[:n] is the whole text for every n from there on, so the loop's
\* later iterations are all the same.
search_web_grow ==
    /\ pc = "grow"
    /\ remove_char_count' =
           IF remove_char_count > 0 /\ remove_char_count >= res
           THEN remove_char_count
           ELSE remove_char_count + RemoveStep
    /\ tokens' = tokenize[Slice(res, remove_char_count')]
    /\ pc' = "while"
    /\ UNCHANGED << res, tokenize, max_tokens_search_results,
                    original_prompt_token_count, has_remove_char, returned, registry >>

\* As search_web_return, but the text is returned whole (line 77 as line 76).
search_web_return_whole ==
    /\ pc = "return"
    /\ returned' = Some(res)
    /\ pc' = "done"
    /\ UNCHANGED << res, tokenize, max_tokens_search_results, tokens,
                    original_prompt_token_count, remove_char_count, has_remove_char,
                    registry >>

\* Lines 75-77.
search_web_return ==
    /\ pc = "return"
    /\ returned' = Some(IF has_remove_char THEN Slice(res, remove_char_count) ELSE res)
    /\ pc' = "done"
    /\ UNCHANGED << res, tokenize, max_tokens_search_results, tokens,
                    original_prompt_token_count, remove_char_count, has_remove_char,
                    registry >>

WebSearchNext ==
    search_web_tokenize \/ search_web_test \/ search_web_grow \/ search_web_return

\* search_web is sequential code: while it has a next statement, it takes it.
WebSearchSpec == WebSearchInit /\ [][WebSearchNext]_vars /\ WF_vars(WebSearchNext)

(***************************************************************************)
(* Properties                                                              *)
(***************************************************************************)
Registered(name) ==
    DictHas(function_tools, name) \/ DictHas(function_tools_containing_field_string, name)

HasStage(s) == \E i \in 1..Len(last.stages) : last.stages[i] = s

\* C1: registering a tool whose canonical name is already a key of either
\* dictionary fails with DuplicateToolName and leaves both dictionaries as
\* they were.
C1_DuplicateRejected ==
    [][ (last'.op = "register" /\ Registered(last'.name))
          => /\ last'.outcome.kind = "raise"
             /\ last'.outcome.exc = "DuplicateToolName"
             /\ function_tools' = function_tools
             /\ function_tools_containing_field_string' =
                    function_tools_containing_field_string ]_vars

\* C2: no canonical name is a key of both the plain and the embedded-text
\* dictionary.
C2_MappingsDisjoint ==
    DictKeys(function_tools) \cap DictKeys(function_tools_containing_field_string) = {}

\* C3: handle_function_call never raises; whenever the call does not succeed
\* it returns a string prefixed "Error: ".
C3_NeverRaises ==
    last.op = "handle"
      => /\ last.outcome.kind = "return"
         /\ ~HasStage("Succeeded") => last.outcome.value.prefix = "Error: "

\* The response is a well-formed call object c, with or without a fenced block.
CarriesCall(text, c) ==
    \E m \in { Absent, Backticks, TripleQuote } :
        text = RenderCall(c.function, c.parameters) \o RenderFence(m)

\* C4: a well-formed call object naming a tool that is in neither dictionary
\* yields a returned "Error: " string, raises nothing, and invokes no handler.
C4_UnknownNameIsErrorString ==
    (last.op = "handle" /\ \E c \in CallObjects :
                               CarriesCall(last.response, c) /\ ~Registered(c.function))
      => /\ last.outcome.kind = "return"
         /\ last.outcome.value.prefix = "Error: "
         /\ last.invoked = <<>>

EmbeddedKeys == { "markdown_code_block", "triple_quoted_string" }

\* The call names a registered tool and omits a field its schema requires
\* (other than the content field the embedded-text path supplies).
OmitsRequiredField(c) ==
    \E d \in { function_tools, function_tools_containing_field_string } :
        /\ DictHas(d, c.function)
        /\ \E f \in DictGet(d, c.function).model.required \ EmbeddedKeys :
               f \notin DOMAIN c.parameters

\* C5: a call of a registered tool that omits a required field yields an
\* error string derived from the validation error, and run is not invoked.
C5_SchemaMismatchIsErrorString ==
    (last.op = "handle" /\ \E c \in CallObjects :
                               CarriesCall(last.response, c) /\ OmitsRequiredField(c))
      => /\ last.outcome.kind = "return"
         /\ last.outcome.value.prefix = "Error: "
         /\ last.invoked = <<>>

\* C6: whatever else is registered, a plain call object naming a registered
\* plain tool with parameters that fit its schema is dispatched to that tool
\* with exactly those parameters, no embedded-text key added.
C6_PlainCallDispatched ==
    \A c \in CallObjects :
        ( /\ last.op = "handle"
          /\ last.response = RenderCall(c.function, c.parameters)
          /\ DictHas(function_tools, c.function)
          /\ Validates(DictGet(function_tools, c.function).model, c.parameters) )
        => /\ Len(last.invoked) = 1
           /\ last.invoked[1].tool = DictGet(function_tools, c.function)
           /\ last.invoked[1].parameters = c.parameters
           /\ DOMAIN last.invoked[1].parameters \cap EmbeddedKeys = {}

\* What invoking the tool directly with the parameters gives, when run returns.
DirectCall(tool, call_parameters) ==
    Return(RunOutput(tool.model, call_parameters, tool.additional_parameters))

\* C7: for a registered tool and a call object valid for its schema, the
\* value handle_function_call returns is the result of constructing the
\* parameters and invoking the tool with its registration-time keywords.
C7_RoundTrip ==
    \A c \in CallObjects :
        /\ ( /\ last.op = "handle"
             /\ last.response = RenderCall(c.function, c.parameters)
             /\ DictHas(function_tools, c.function)
             /\ Validates(DictGet(function_tools, c.function).model, c.parameters) )
           => /\ Len(last.invoked) = 1
              /\ last.invoked[1].behaviour = "returns"
                   => last.outcome = DirectCall(DictGet(function_tools, c.function),
                                                c.parameters)
        /\ \A i \in 1..Len(function_tools_containing_field_string) :
             LET tool == function_tools_containing_field_string[i].value
                 full == Inject(c.parameters, InjectedKey(tool), <<"body">>)
             IN  ( /\ last.op = "handle"
                   /\ function_tools_containing_field_string[i].key = c.function
                   /\ last.response = RenderCall(c.function, c.parameters)
                                        \o RenderFence(Marker(tool))
                   /\ Validates(tool.model, full) )
                 => /\ Len(last.invoked) = 1
                    /\ last.invoked[1].behaviour = "returns"
                         => last.outcome = DirectCall(tool, full)

\* The embedded-text path parsed the response and found the called tool.
HandledOnEmbeddedPath ==
    last.op = "handle" /\ last.path = "embedded" /\ HasStage("Resolved")

Callee == DictGet(function_tools_containing_field_string, last.call[1].function)

\* C8: on the embedded-text path exactly one of the two keys is injected,
\* with the content segment as its value: "markdown_code_block" for a
\* markdown-block tool, "triple_quoted_string" for a triple-quoted-string tool.
C8_ExactlyOneKeyInjected ==
    HandledOnEmbeddedPath
      => /\ Cardinality(last.injected) = 1
         /\ last.injected \subseteq EmbeddedKeys
         /\ \A k \in last.injected : last.call[1].parameters[k] = last.content
         /\ (Callee.has_markdown_code_block /\ ~Callee.has_triple_quoted_string)
               => last.injected = {"markdown_code_block"}
         /\ (Callee.has_triple_quoted_string /\ ~Callee.has_markdown_code_block)
               => last.injected = {"triple_quoted_string"}

C8_Witness ==
    /\ HandledOnEmbeddedPath
    /\ last.injected = {"triple_quoted_string"}
    /\ last.content = <<"body">>

StageOrder == << "Received", "Parsed", "Resolved", "Validated", "Invoked" >>

\* C9: a response passes the stages in order and ends in exactly one terminal
\* outcome; run is invoked at most once, and only for a call that was parsed,
\* resolved to a registered descriptor and validated against its schema.
C9_StagesInOrder ==
    last.op = "handle"
      => /\ \E k \in 1..Len(StageOrder) :
               \E t \in { "Succeeded", "Failed" } :
                   /\ last.stages = SubSeq(StageOrder, 1, k) \o << t >>
                   /\ t = "Succeeded" => k = Len(StageOrder)
                   /\ k = Len(StageOrder) <=> Len(last.invoked) = 1
         /\ Len(last.invoked) <= 1
         /\ HasStage("Succeeded") <=>
                (last.outcome.kind = "return" /\ last.outcome.value.prefix = "")
         /\ Len(last.invoked) = 1
               => /\ HasStage("Parsed")
                  /\ \E d \in { function_tools, function_tools_containing_field_string } :
                         /\ DictHas(d, last.call[1].function)
                         /\ DictGet(d, last.call[1].function) = last.invoked[1].tool
                  /\ last.invoked[1].parameters = last.call[1].parameters
                  /\ Validates(last.invoked[1].tool.model, last.invoked[1].parameters)

C9_Witness ==
    /\ last.op = "handle"
    /\ last.stages = StageOrder \o << "Succeeded" >>
    /\ Len(last.invoked) = 1

\* C10: no register call takes effect once finalize has been invoked, and no
\* response is dispatched before finalize has completed.
C10_PhasesSequential ==
    [][ /\ (last'.op = "register" /\ grammar # None)
           => /\ function_tools' = function_tools
              /\ function_tools_containing_field_string' =
                     function_tools_containing_field_string
        /\ last'.op = "handle" => grammar # None ]_vars

\* C11: the compiled grammar and the documentation are None from construction
\* until the first finalize, whatever register and handle_function_call calls
\* run, and are present from the completion of a finalize on: they start as
\* None, no other operation changes them, and finalize leaves both present.
C11_GrammarPresentOnlyAfterFinalize ==
    /\ get_grammar = None /\ get_documentation = None
    /\ [][ /\ last'.op # "finalize"
               => get_grammar' = get_grammar /\ get_documentation' = get_documentation
           /\ last'.op = "finalize"
               => get_grammar' # None /\ get_documentation' # None ]_vars

\* A response is handled after a finalize that followed a registration.
C11_Witness ==
    /\ last.op = "handle"
    /\ get_grammar # None /\ get_documentation # None
    /\ Len(function_tools) + Len(function_tools_containing_field_string) > 0

\* C12: once finalize has run, a register call leaves the grammar, the grammar
\* text and the documentation as they are, and the three change only in a
\* finalize step.
C12_SnapshotsImmutable ==
    [][ grammar # None
          => /\ last'.op = "register"
                  => UNCHANGED << grammar, gbnf_grammar, grammar_documentation >>
             /\ << grammar, gbnf_grammar, grammar_documentation >>'
                    # << grammar, gbnf_grammar, grammar_documentation >>
                  => last'.op = "finalize" ]_vars

\* A tool was registered after finalize and the stored grammar text is no
\* longer the one the registry's tools compile to.
C12_Witness ==
    /\ last.op = "register"
    /\ grammar # None
    /\ gbnf_grammar # Some(FinalizeCompiled[1])

\* C13: handle_function_call changes nothing of the registry: both
\* dictionaries with every descriptor in them (its additional_parameters
\* included), the grammar, its text and the documentation are the same after
\* the call as before, whether the call succeeds, fails or raises.
C13_HandleIsReadOnly ==
    [][ last'.op = "handle"
          => /\ function_tools' = function_tools
             /\ function_tools_containing_field_string' =
                    function_tools_containing_field_string
             /\ get_grammar' = get_grammar
             /\ gbnf_grammar' = gbnf_grammar
             /\ get_documentation' = get_documentation ]_vars

\* After finalize a call with injected content ran a tool that has
\* additional_parameters of its own.
C13_Witness ==
    /\ last.op = "handle"
    /\ grammar # None
    /\ last.injected # {}
    /\ HasStage("Succeeded")
    /\ last.invoked[1].kwargs # << >>

\* The descriptor asks for one of the two fence conventions, not both.
SingleKind(tool) == tool.has_markdown_code_block # tool.has_triple_quoted_string

\* C14: on the embedded-text path the marker the response is split on is the
\* one of the called descriptor's kind, hence the one that goes with the key
\* the content is injected under, also when several embedded-text tools are
\* registered and the response holds the name of more than one.
C14_MarkerOfCalledTool ==
    ( /\ HandledOnEmbeddedPath
      /\ \A i \in 1..Len(function_tools_containing_field_string) :
             SingleKind(function_tools_containing_field_string[i].value) )
      => /\ last.marker = Marker(Callee)
         /\ last.marker = TripleQuote <=> last.injected = {"triple_quoted_string"}
         /\ last.marker = Backticks <=> last.injected = {"markdown_code_block"}

\* The descriptors stored in either dictionary.
RegisteredTools ==
    { function_tools[i].value : i \in 1..Len(function_tools) }
    \cup { function_tools_containing_field_string[i].value :
              i \in 1..Len(function_tools_containing_field_string) }

\* C15: the grammar finalize compiles was given an allow-markdown flag that
\* is true exactly when some registered descriptor asks for a markdown block,
\* and an allow-triple-quoted flag that is true exactly when some registered
\* descriptor asks for a triple-quoted string.
C15_AllowFlagsPerKind ==
    last.op = "finalize"
      => /\ gbnf_grammar[1].markdown_rule
               = (\E tool \in RegisteredTools : tool.has_markdown_code_block)
         /\ gbnf_grammar[1].triple_rule
               = (\E tool \in RegisteredTools : tool.has_triple_quoted_string)

\* The model class a canonical name is the name of.
ModelNamed(name) ==
    CHOOSE m \in PydanticModels : format_model_and_field_name(m.name) = name

\* C16: the model list finalize hands to the compiler holds every registered
\* schema once, in registration order: registering a tool under a name not
\* yet registered puts its schema at the end of that list, whichever
\* dictionary the tool is stored in.
C16_ModelsInRegistrationOrder ==
    [][ (last'.op = "register" /\ ~Registered(last'.name))
          => FinalizeModels' = Append(FinalizeModels, ModelNamed(last'.name)) ]_vars

\* The lookup with the embedded-text dictionary consulted first.
LookupEmbeddedFirst(function_name) ==
    IF DictHas(function_tools_containing_field_string, function_name)
    THEN Some(DictGet(function_tools_containing_field_string, function_name))
    ELSE IF DictHas(function_tools, function_name)
    THEN Some(DictGet(function_tools, function_name))
    ELSE None

\* C17: get_function_tool returns the descriptor registered under the name
\* when the name is a key of either dictionary and None when it is a key of
\* neither, and what it returns does not depend on which dictionary is
\* consulted first.
C17_LookupOrderIrrelevant ==
    last.op = "get"
      => /\ Registered(last.name)
               => \E d \in { function_tools, function_tools_containing_field_string } :
                      DictHas(d, last.name) /\ last.result = Some(DictGet(d, last.name))
         /\ ~Registered(last.name) => last.result = None
         /\ last.result = LookupEmbeddedFirst(last.name)

\* C18: a handler that handle_function_call invokes is the one of the
\* descriptor registered under the name in the parsed call's "function" key,
\* in the dictionary of the path taken; on the embedded-text path this is so
\* even when another embedded-text tool's name selected the path.
C18_InvokesNamedTool ==
    (last.op = "handle" /\ last.invoked # << >>)
      => /\ FunctionName(last.invoked[1].tool) = last.call[1].function
         /\ last.path = "embedded"
               => /\ DictHas(function_tools_containing_field_string, last.call[1].function)
                  /\ last.invoked[1].tool = Callee
         /\ last.path = "plain"
               => /\ DictHas(function_tools, last.call[1].function)
                  /\ last.invoked[1].tool = DictGet(function_tools, last.call[1].function)

\* A handler ran on the embedded-text path that was selected by the name of
\* another tool than the one called.
C18_Witness ==
    /\ last.op = "handle"
    /\ last.path = "embedded"
    /\ last.invoked # << >>
    /\ last.selected # last.call[1].function

\* C19: the truncation loop of search_web terminates for every text and
\* every token budget: search_web returns.
C19_TruncationTerminates == <>(pc = "done")

\* C20: what search_web returns after the header is a prefix of the combined
\* summaries whose token count is within the budget, and it is the whole text
\* exactly when the whole text was within the budget.
C20_ReturnedPrefixWithinBudget ==
    pc = "done"
      => /\ returned[1] \in PrefixLengths(res)
         /\ tokenize[returned[1]] <= max_tokens_search_results
         /\ returned[1] = res <=> tokenize[res] <= max_tokens_search_results

\* A text over the budget was cut, after more than one round of the loop.
C20_Witness ==
    /\ pc = "done"
    /\ has_remove_char
    /\ remove_char_count > RemoveStep
    /\ returned[1] < res
====
